---- MODULE Spec2Model ----
\* A model of the disclosure tracker of src/tracker.py (DisclosureTracker) with
\* its collaborators download_pdf (src/pdf_parser.py) and
\* send_email_notification (src/notification.py).
\*
\* One tracker object is shared by the threads that call
\* process_new_disclosures_wrapper.  Every thread-local variable of the code
\* (new_disclosures, has_new_entries, pdf_io, ...) is a function of the thread.
\* The variables log, notified, renotified and last are history variables:
\* they record what the run did and no action reads them.
EXTENDS Naturals, Sequences, FiniteSets, TLC

VARIABLES
    config,                      \* the configuration the tracker was built with
    file,                        \* the content of config["data_file"]
    known_disclosures,           \* self.known_disclosures
    expected_disclosure_counts,  \* self.expected_disclosure_counts
    is_running,                  \* self._is_running
    pc,                          \* where each thread is in the wrapper / cycle
    resp,                        \* search_response of check_for_new_disclosures
    new_disclosures,             \* the list check_for_new_disclosures returned
    has_new_entries,             \* the flag check_for_new_disclosures returned
    idx,                         \* position of the for loop of process_new_disclosures
    pdf_io,                      \* result of download_pdf for the current filing
    sendRes,                     \* result of send_email_notification for it
    log,                         \* history: what each loop iteration of the cycle did
    notified,                    \* history: identities notified successfully
    renotified,                  \* history: identities notified more than once
    last,                        \* history: what the last step was and did
    peak,                        \* SpecPeak: the count loaded and the totals extracted since
    listing,                     \* SpecRepeat: the page the site keeps serving
    html_content,                \* SpecCount: argument of _extract_total_disclosure_count
    count_result,                \* SpecCount: what it returned
    data_file,                   \* SpecStore: config["data_file"] as the JSON text it holds
    tracker,                     \* SpecStore: whether a DisclosureTracker got built
    pdf,                         \* SpecExtract: the document given to extract_trades_from_pdf
    trades,                      \* SpecExtract: the list it returned
    id_pair                      \* SpecIdentity: two filings and their disclosure_id

vars == <<config, file, known_disclosures, expected_disclosure_counts, is_running,
          pc, resp, new_disclosures, has_new_entries, idx, pdf_io, sendRes,
          log, notified, renotified, last, peak, listing,
          html_content, count_result, data_file, tracker, pdf, trades, id_pair>>

\* The variables of the specifications that study one function or the state
\* file alone; the tracker's cycle never touches them.
aside == <<html_content, count_result, data_file, tracker, pdf, trades, id_pair>>

-----------------------------------------------------------------------------
\* Bounds of the model.

\* Threads that may call the wrapper in SpecThreads.
NumThreads == 2
\* Data rows of a results table.
MaxRows == 2
\* Largest total a results page reports.
MaxCount == 2

Threads == 1..NumThreads
MainThread == 1
Counts == 0..MaxCount

-----------------------------------------------------------------------------
\* Configuration.

\* str(config["filing_year"]), and another year a state file may hold.
current_year == "2025"
other_year == "2024"

\* The shapes of config["email"]: which recipient key it carries.  main()
\* validates "recipient_emails"; send_email_notification reads "recipient_email".
Configs ==
    { [recipient_emails |-> TRUE,  recipient_email |-> FALSE],
      [recipient_emails |-> FALSE, recipient_email |-> TRUE],
      [recipient_emails |-> TRUE,  recipient_email |-> TRUE] }

\* main(): the recipient part of the startup check (a real, non-placeholder
\* sender and password are taken as given in every config of Configs).
ValidatedShape(c) == c.recipient_emails

-----------------------------------------------------------------------------
\* The results page.

Host == "https://disclosures-clerk.house.gov"

\* The kinds of table row the site can serve.  cells is the number of <td>;
\* link says whether the filing cell holds an <a href>.
Rows ==
    { [cells |-> 4, name |-> "P", filing_type |-> "PTR", link |-> TRUE,
       href |-> "/a.pdf"],
      [cells |-> 4, name |-> "Q", filing_type |-> "PTR", link |-> TRUE,
       href |-> "http://x/b.pdf"],
      [cells |-> 3, name |-> "R", filing_type |-> "", link |-> FALSE,
       href |-> ""],
      [cells |-> 4, name |-> "S", filing_type |-> "PTR", link |-> FALSE,
       href |-> ""] }

StartsWith(s, p) == Len(s) >= Len(p) /\ SubSeq(s, 1, Len(p)) = p

\* tracker.py:166-168
PdfUrl(row) ==
    IF StartsWith(row.href, "http") THEN row.href ELSE Host \o row.href

\* tracker.py:171
DisclosureId(row) == row.name \o "_" \o row.filing_type \o "_" \o PdfUrl(row)

\* tracker.py:153,164-165: the rows the loop turns into a candidate.
Listed(row) == row.cells >= 4 /\ row.link

Ids == { DisclosureId(r) : r \in { q \in Rows : Listed(q) } }

NoPhrase == MaxCount + 1

RowSeqs == UNION { [1..n -> Rows] : n \in 0..MaxRows }

\* What the search request can return.  showing is N of a
\* "Showing X to Y of N entries" phrase and of_entries is N of the first
\* "of N entries" phrase (a Showing phrase contains one), NoPhrase when the
\* text holds none; table says whether a <table class="table"> is there.
Pages ==
    { [showing |-> s, of_entries |-> o, table |-> TRUE, rows |-> rs] :
        s \in Counts \cup {NoPhrase}, o \in Counts \cup {NoPhrase}, rs \in RowSeqs }
    \cup
    { [showing |-> s, of_entries |-> o, table |-> FALSE, rows |-> <<>>] :
        s \in Counts \cup {NoPhrase}, o \in Counts \cup {NoPhrase} }

SitePages == { p \in Pages : p.showing = NoPhrase \/ p.of_entries = p.showing }

\* resp[t] is <<>> while the thread holds no search response, else <<page>>.
NoResp == <<>>

\* tracker.py:68-91
ExtractTotalDisclosureCount(page) ==
    IF page.showing # NoPhrase THEN page.showing
    ELSE IF page.of_entries # NoPhrase THEN page.of_entries
    ELSE IF page.table THEN Len(page.rows)
    ELSE 0

-----------------------------------------------------------------------------
\* The state file.

EmptyCounts == [y \in {} |-> 0]

MissingFile == [kind |-> "missing", processed_disclosures |-> {},
                legacy |-> FALSE, total_disclosure_count |-> 0,
                total_disclosure_counts_by_year |-> EmptyCounts]

\* A file json.load cannot decode: empty or cut short by a failed write.
CorruptFile == [MissingFile EXCEPT !.kind = "corrupt"]

DataFile(ids, counts) ==
    [kind |-> "data", processed_disclosures |-> ids,
     legacy |-> FALSE, total_disclosure_count |-> 0,
     total_disclosure_counts_by_year |-> counts]

LegacyFile(ids, n) ==
    [kind |-> "data", processed_disclosures |-> ids,
     legacy |-> TRUE, total_disclosure_count |-> n,
     total_disclosure_counts_by_year |-> EmptyCounts]

\* The state files a run can start with.
InitFiles ==
    { MissingFile, CorruptFile,
      LegacyFile({}, 1),
      DataFile({}, [y \in {other_year} |-> 1]) }

\* dict.get(key, 0)
Get(counts, y) == IF y \in DOMAIN counts THEN counts[y] ELSE 0

\* An assignment that drops the other keys of the dict.
C27m_Put(counts, y, v) == [k \in {y} |-> v]

\* dict[key] = value
Put(counts, y, v) ==
    [k \in (DOMAIN counts) \cup {y} |-> IF k = y THEN v ELSE counts[k]]

\* tracker.py:27-52: the identity set and the count map after _load_data.
LoadKnown(f) == IF f.kind = "data" THEN f.processed_disclosures ELSE {}

LoadCounts(f) ==
    IF f.kind # "data" THEN EmptyCounts
    ELSE IF f.legacy THEN Put(EmptyCounts, current_year, f.total_disclosure_count)
    ELSE f.total_disclosure_counts_by_year

\* The ways the write of _save_data can end: the file is rewritten; open()
\* fails and the file is untouched; open() truncated the file and the dump
\* failed, leaving a file that does not decode.
DiskOutcomes == {"ok", "open_failed", "write_failed"}

\* tracker.py:54-66: the file after _save_data of (ids, counts).
SaveData(f, ids, counts, disk) ==
    CASE disk = "ok"           -> DataFile(ids, counts)
      [] disk = "open_failed"  -> f
      [] disk = "write_failed" -> CorruptFile

-----------------------------------------------------------------------------
\* check_for_new_disclosures, the part after the two requests.

\* tracker.py:174-183: the record appended for a row.
Disclosure(row) ==
    [name |-> row.name, filing_type |-> row.filing_type,
     pdf_url |-> PdfUrl(row), disclosure_id |-> DisclosureId(row)]

\* A check that does not consult the identity set.
C3m_IsNew(row, known) == TRUE

\* tracker.py:174
IsNew(row, known) == DisclosureId(row) \notin known

\* tracker.py:147-185: the rows of the table, in order, that are listed and new.
RECURSIVE NewDisclosures(_, _)
NewDisclosures(rows, known) ==
    IF rows = <<>> THEN <<>>
    ELSE LET rest == NewDisclosures(Tail(rows), known)
             row  == Head(rows)
         IN  IF Listed(row) /\ IsNew(row, known)
             THEN <<Disclosure(row)>> \o rest
             ELSE rest

\* A comparison that also fires on an equal count.
C10m_HasNewEntries(current_count, expected_count) == current_count >= expected_count

\* A comparison that fires on every change of the count.
C26m_HasNewEntries(current_count, expected_count) == current_count # expected_count

\* A check that reports new entries whatever the counts are.
C14m_HasNewEntries(current_count, expected_count) == TRUE

\* tracker.py:129
HasNewEntries(current_count, expected_count) == current_count > expected_count

-----------------------------------------------------------------------------
\* History records.

\* One loop iteration of process_new_disclosures: the filing, and which of
\* fetch, extraction, send and record happened in it.  relay says whether the
\* mail relay was ready to accept the message.
LogEntry(id, fetched, extracted, relay, sendOk, added) ==
    [id |-> id, fetched |-> fetched, extracted |-> extracted, relay |-> relay,
     sent |-> sendOk, added |-> added]

Append1(t, e) == [log EXCEPT ![t] = Append(@, e)]

\* The last step: the operation, how its _save_data ended ("none" when it
\* made none) and, for a check, the identities the page listed, the total it
\* extracted, the count that was stored before, and whether the parse of the
\* page threw.
Did(op) ==
    [op |-> op, disk |-> "none", shown |-> {}, total |-> 0, expected |-> 0,
     threw |-> FALSE]

\* listing is <<>> where the site serves what it likes, else one record: the
\* page the site keeps serving and whether a check of this process read it.
Listing(page, read) == <<[page |-> page, read |-> read]>>

Checked(page, current_count, expected_count, disk) ==
    [op |-> "parse", disk |-> disk,
     shown |-> { DisclosureId(page.rows[j]) :
                   j \in { k \in 1..Len(page.rows) : Listed(page.rows[k]) } },
     total |-> current_count, expected |-> expected_count, threw |-> FALSE]

-----------------------------------------------------------------------------
\* Initial states: DisclosureTracker.__init__.

TypeOK ==
    /\ config \in Configs
    /\ known_disclosures \subseteq Ids
    /\ is_running \in BOOLEAN
    /\ notified \subseteq Ids
    /\ renotified \subseteq notified
    /\ last.disk \in DiskOutcomes \cup {"none"}

\* What a process has seen of the counts: the count map it loaded at its
\* start, the highest total its checks extracted since for the configured
\* year, and whether a total below that highest one was extracted after it.
Started(counts) == [loaded |-> counts, high |-> 0, dropped |-> FALSE]

Extracted(seen, current_count) ==
    [loaded |-> seen.loaded,
     high |-> IF current_count > seen.high THEN current_count ELSE seen.high,
     dropped |-> IF current_count > seen.high THEN FALSE
                 ELSE seen.dropped \/ current_count < seen.high]

InitWith(f, c) ==
    /\ config = c
    /\ file = f
    /\ known_disclosures = LoadKnown(f)
    /\ expected_disclosure_counts = LoadCounts(f)
    /\ is_running = FALSE
    /\ pc = [t \in Threads |-> "idle"]
    /\ resp = [t \in Threads |-> NoResp]
    /\ new_disclosures = [t \in Threads |-> <<>>]
    /\ has_new_entries = [t \in Threads |-> FALSE]
    /\ idx = [t \in Threads |-> 0]
    /\ pdf_io = [t \in Threads |-> FALSE]
    /\ sendRes = [t \in Threads |-> FALSE]
    /\ log = [t \in Threads |-> <<>>]
    /\ notified = {}
    /\ renotified = {}
    /\ last = Did("init")

\* Nothing is under study on the side: no count extraction, no state file
\* text, no document.
AsideIdle ==
    /\ listing = <<>>
    /\ peak = <<>>
    /\ html_content = <<>>
    /\ count_result = <<>>
    /\ data_file = <<>>
    /\ tracker = "none"
    /\ pdf = <<>>
    /\ trades = <<>>
    /\ id_pair = <<>>

Init == AsideIdle /\ \E f \in InitFiles, c \in Configs : InitWith(f, c)

-----------------------------------------------------------------------------
\* process_new_disclosures_wrapper.

locals == <<resp, new_disclosures, has_new_entries, idx, pdf_io, sendRes>>
repo == <<file, known_disclosures, expected_disclosure_counts>>
hist == <<notified, renotified>>

\* A caller (the scheduler, or any thread) enters the wrapper.
Call(t) ==
    /\ pc[t] = "idle"
    /\ pc' = [pc EXCEPT ![t] = "test"]
    /\ last' = Did("call")
    /\ UNCHANGED <<aside, listing, peak, config, repo, is_running, locals, log, hist>>

\* tracker.py:194-196: the flag is read outside the lock.
\* A wrapper that goes on although the flag is set.
C8m_AfterTest(running) == "set"

\* tracker.py:194-196
AfterTest(running) == IF running THEN "idle" ELSE "set"

TestRunning(t) ==
    /\ pc[t] = "test"
    /\ pc' = [pc EXCEPT ![t] = AfterTest(is_running)]
    /\ last' = Did(IF is_running THEN "skip" ELSE "test")
    /\ UNCHANGED <<aside, listing, peak, config, repo, is_running, locals, log, hist>>

\* tracker.py:198-202: with self._lock: self._is_running = True; the lock is
\* held for this assignment only, so taking it never blocks across a step.
SetRunning(t) ==
    /\ pc[t] = "set"
    /\ is_running' = TRUE
    /\ pc' = [pc EXCEPT ![t] = "request"]
    /\ log' = [log EXCEPT ![t] = <<>>]
    /\ last' = Did("set")
    /\ UNCHANGED <<aside, listing, peak, config, repo, locals, hist>>

\* tracker.py:203-205: finally: with self._lock: self._is_running = False.
Finally(t) ==
    /\ pc[t] = "finally"
    /\ is_running' = FALSE
    /\ pc' = [pc EXCEPT ![t] = "idle"]
    /\ new_disclosures' = [new_disclosures EXCEPT ![t] = <<>>]
    /\ has_new_entries' = [has_new_entries EXCEPT ![t] = FALSE]
    /\ idx' = [idx EXCEPT ![t] = 0]
    /\ log' = [log EXCEPT ![t] = <<>>]
    /\ last' = Did("finally")
    /\ UNCHANGED <<aside, listing, peak, config, repo, resp, pdf_io, sendRes, hist>>

-----------------------------------------------------------------------------
\* check_for_new_disclosures.

\* A loop that ends at the first pass.
C6m_LoopPc(list, i) == "finally"

\* A loop that runs its body once more than the list is long.
C12m_LoopPc(list, i) == IF i <= Len(list) + 1 THEN "download" ELSE "finally"

\* Where the for loop of process_new_disclosures goes with i filings done.
LoopPc(list, i) == IF i <= Len(list) THEN "download" ELSE "finally"

\* tracker.py:100-117 and 187-189: the priming request and the search request.
\* A failure of either is caught and the call returns ([], False).
Request(t, env) ==
    /\ pc[t] = "request"
    /\ \E http \in env.http :
         IF http = "ok"
         THEN \E page \in env.pages :
                /\ resp' = [resp EXCEPT ![t] = <<page>>]
                /\ pc' = [pc EXCEPT ![t] = "parse"]
                /\ UNCHANGED <<new_disclosures, has_new_entries, idx>>
         ELSE /\ new_disclosures' = [new_disclosures EXCEPT ![t] = <<>>]
              /\ has_new_entries' = [has_new_entries EXCEPT ![t] = FALSE]
              /\ idx' = [idx EXCEPT ![t] = 1]
              /\ pc' = [pc EXCEPT ![t] = LoopPc(<<>>, 1)]
              /\ UNCHANGED resp
    /\ last' = Did("request")
    /\ UNCHANGED <<aside, listing, peak, config, repo, is_running, pdf_io, sendRes, log, hist>>

\* tracker.py:119-189: the count comparison, its save, and the row loop.
\* soup says whether BeautifulSoup (line 140) takes the markup; when it
\* throws, the except of lines 187-189 returns ([], False).
Parse(t, env) ==
    /\ pc[t] = "parse"
    /\ \E soup \in env.soup :
       LET page == resp[t][1]
           current_count == ExtractTotalDisclosureCount(page)
           expected_count == Get(expected_disclosure_counts, current_year)
           has_new == HasNewEntries(current_count, expected_count)
           found == IF soup /\ page.table
                    THEN NewDisclosures(page.rows, known_disclosures)
                    ELSE <<>>
       IN  /\ IF has_new
              THEN \E disk \in env.disk :
                     /\ expected_disclosure_counts' =
                            Put(expected_disclosure_counts, current_year, current_count)
                     /\ file' = SaveData(file, known_disclosures,
                                         expected_disclosure_counts', disk)
                     /\ last' = [Checked(page, current_count, expected_count, disk)
                                   EXCEPT !.threw = ~soup]
              ELSE /\ UNCHANGED <<expected_disclosure_counts, file>>
                   /\ last' = [Checked(page, current_count, expected_count, "none")
                                 EXCEPT !.threw = ~soup]
           /\ new_disclosures' = [new_disclosures EXCEPT ![t] = found]
           /\ has_new_entries' = [has_new_entries EXCEPT ![t] = soup /\ has_new]
           /\ idx' = [idx EXCEPT ![t] = 1]
           /\ pc' = [pc EXCEPT ![t] = LoopPc(found, 1)]
    /\ peak' = IF peak = <<>> THEN peak
               ELSE <<Extracted(peak[1], ExtractTotalDisclosureCount(resp[t][1]))>>
    /\ listing' = IF listing = <<>> THEN listing ELSE Listing(listing[1].page, TRUE)
    /\ resp' = [resp EXCEPT ![t] = NoResp]
    /\ UNCHANGED <<aside, config, known_disclosures, is_running, pdf_io, sendRes, log,
                   hist>>

-----------------------------------------------------------------------------
\* process_new_disclosures: the loop over the new filings.

Current(t) == new_disclosures[t][idx[t]]

\* tracker.py:220-223 with pdf_parser.py:10-18: download_pdf returns the bytes
\* or None; on None the loop continues with the next filing.
Download(t, env) ==
    /\ pc[t] = "download"
    /\ \E fetched \in env.fetch :
         IF fetched
         THEN /\ pdf_io' = [pdf_io EXCEPT ![t] = TRUE]
              /\ pc' = [pc EXCEPT ![t] = "extract"]
              /\ UNCHANGED <<idx, log>>
         ELSE /\ log' = Append1(t, LogEntry(Current(t).disclosure_id,
                                            FALSE, FALSE, FALSE, FALSE, FALSE))
              /\ idx' = [idx EXCEPT ![t] = @ + 1]
              /\ pc' = [pc EXCEPT ![t] = LoopPc(new_disclosures[t], idx[t] + 1)]
              /\ UNCHANGED pdf_io
    /\ last' = Did("download")
    /\ UNCHANGED <<aside, listing, peak, config, repo, is_running, resp, new_disclosures,
                   has_new_entries, sendRes, hist>>

\* tracker.py:226: extract_trades_from_pdf never raises; its result only goes
\* into the message.
Extract(t) ==
    /\ pc[t] = "extract"
    /\ pc' = [pc EXCEPT ![t] = "send"]
    /\ last' = Did("extract")
    /\ UNCHANGED <<aside, listing, peak, config, repo, is_running, locals, log, hist>>

\* notification.py:11-97: True when the message was built and the relay took
\* it; building it reads config["email"]["recipient_email"], and a missing key
\* is caught like every other error and makes the result False.
SendEmailNotification(c, relay) == c.recipient_email /\ relay

\* tracker.py:229: the call of send_email_notification.
Send(t, env) ==
    /\ pc[t] = "send"
    /\ \E relay \in env.relay :
         LET ok == SendEmailNotification(config, relay)
             id == Current(t).disclosure_id
         IN  /\ sendRes' = [sendRes EXCEPT ![t] = ok]
             /\ notified' = IF ok THEN notified \cup {id} ELSE notified
             /\ renotified' = IF ok /\ id \in notified
                              THEN renotified \cup {id} ELSE renotified
             /\ log' = Append1(t, LogEntry(id, TRUE, TRUE, relay, ok, FALSE))
    /\ pc' = [pc EXCEPT ![t] = "commit"]
    /\ last' = Did("send")
    /\ UNCHANGED <<aside, listing, peak, config, repo, is_running, resp, new_disclosures,
                   has_new_entries, idx, pdf_io>>

\* A loop that records nothing.
C29m_ShouldRecord(sendOk) == FALSE

\* A loop that records whatever the send returned.
C2m_ShouldRecord(sendOk) == TRUE

\* tracker.py:229: the test of the send result.
ShouldRecord(sendOk) == sendOk

\* An assignment in place of the set insertion.
C9m_Record(known, id) == {id}

\* tracker.py:231
Record(known, id) == known \cup {id}

\* tracker.py:229-232: on a true result the identity is recorded and saved;
\* then the loop goes on.
Commit(t, env) ==
    /\ pc[t] = "commit"
    /\ LET id == Current(t).disclosure_id
       IN  IF ShouldRecord(sendRes[t])
           THEN \E disk \in env.disk :
                  /\ known_disclosures' = Record(known_disclosures, id)
                  /\ file' = SaveData(file, known_disclosures',
                                      expected_disclosure_counts, disk)
                  /\ last' = [Did("commit") EXCEPT !.disk = disk]
                  /\ log' = [log EXCEPT ![t][Len(log[t])].added = TRUE]
           ELSE /\ UNCHANGED <<known_disclosures, file, log>>
                /\ last' = Did("commit")
    /\ idx' = [idx EXCEPT ![t] = @ + 1]
    /\ pc' = [pc EXCEPT ![t] = LoopPc(new_disclosures[t], idx[t] + 1)]
    /\ pdf_io' = [pdf_io EXCEPT ![t] = FALSE]
    /\ sendRes' = [sendRes EXCEPT ![t] = FALSE]
    /\ UNCHANGED <<aside, listing, peak, config, expected_disclosure_counts, is_running, resp,
                   new_disclosures, has_new_entries, hist>>

-----------------------------------------------------------------------------
\* The process.

\* The process stops at any point (a kill, a power loss, an interrupt) and is
\* started again: main.py:33 builds a new tracker, which loads the state file.
Restart ==
    /\ known_disclosures' = LoadKnown(file)
    /\ expected_disclosure_counts' = LoadCounts(file)
    /\ is_running' = FALSE
    /\ pc' = [t \in Threads |-> "idle"]
    /\ resp' = [t \in Threads |-> NoResp]
    /\ new_disclosures' = [t \in Threads |-> <<>>]
    /\ has_new_entries' = [t \in Threads |-> FALSE]
    /\ idx' = [t \in Threads |-> 0]
    /\ pdf_io' = [t \in Threads |-> FALSE]
    /\ sendRes' = [t \in Threads |-> FALSE]
    /\ log' = [t \in Threads |-> <<>>]
    /\ last' = Did("restart")
    /\ peak' = IF peak = <<>> THEN peak ELSE <<Started(LoadCounts(file))>>
    /\ UNCHANGED listing
    /\ UNCHANGED <<aside, config, file, hist>>

\* What the world outside the tracker can do in a run: the pages the site
\* serves, how the two requests end, how a write of the state file ends,
\* whether a document fetch succeeds, whether the mail relay accepts and
\* whether the parser takes the page's markup.
World ==
    [pages |-> SitePages, http |-> {"priming_failed", "search_failed", "ok"},
     disk |-> DiskOutcomes, fetch |-> BOOLEAN, relay |-> BOOLEAN, soup |-> BOOLEAN]

\* A world in which the site keeps serving one page with one listed filing and
\* the disk and the network do not fail; the mail relay may still refuse.
OnePage ==
    [showing |-> 1, of_entries |-> 1, table |-> TRUE,
     rows |-> <<CHOOSE r \in Rows : Listed(r) /\ r.name = "P">>]

QuietWorld ==
    [pages |-> {OnePage}, http |-> {"ok"}, disk |-> {"ok"}, fetch |-> {TRUE},
     relay |-> BOOLEAN, soup |-> {TRUE}]

Step(t, env) ==
    \/ TestRunning(t)
    \/ SetRunning(t)
    \/ Request(t, env)
    \/ Parse(t, env)
    \/ Download(t, env)
    \/ Extract(t)
    \/ Send(t, env)
    \/ Commit(t, env)
    \/ Finally(t)

\* tracker.py:234-252: run_scheduled calls the wrapper at startup and then
\* from schedule.run_pending, always on the one loop thread.
\* A wiring in which every thread may call the wrapper.
C28m_Next ==
    \/ \E t \in Threads : Call(t)
    \/ \E t \in Threads : Step(t, World)
    \/ Restart

Next ==
    \/ Call(MainThread)
    \/ Step(MainThread, World)
    \/ Restart

Spec == Init /\ [][Next]_vars

\* One process and one listing: the scheduler thread runs cycle after cycle
\* while the site keeps serving the same page.
InitRepeat ==
    /\ \E f \in InitFiles, c \in Configs : InitWith(f, c)
    /\ \E page \in SitePages : listing = Listing(page, FALSE)
    /\ peak = <<>>
    /\ html_content = <<>> /\ count_result = <<>> /\ data_file = <<>>
    /\ tracker = "none" /\ pdf = <<>> /\ trades = <<>> /\ id_pair = <<>>

NextRepeat ==
    \/ Call(MainThread)
    \/ Step(MainThread, [World EXCEPT !.pages = {listing[1].page}])

SpecRepeat == InitRepeat /\ [][NextRepeat]_vars

\* The same process under the loop of tracker.py:250-252: run_pending keeps
\* starting cycles and a cycle that started runs on to its end.
SpecFair == SpecRepeat /\ WF_vars(NextRepeat)

\* One process, under a configuration that carries both recipient keys,
\* whose checks are followed: what it loaded and what its checks extracted.
InitPeak ==
    /\ \E f \in InitFiles :
          /\ InitWith(f, [recipient_emails |-> TRUE, recipient_email |-> TRUE])
          /\ peak = <<Started(LoadCounts(f))>>
    /\ listing = <<>>
    /\ html_content = <<>> /\ count_result = <<>> /\ data_file = <<>>
    /\ tracker = "none" /\ pdf = <<>> /\ trades = <<>> /\ id_pair = <<>>

NextPeak ==
    \/ Call(MainThread)
    \/ Step(MainThread, World)

SpecPeak == InitPeak /\ [][NextPeak]_vars

\* Any number of threads call the wrapper of one tracker concurrently.
InitThreads == AsideIdle /\ \E c \in Configs : InitWith(MissingFile, c)

NextThreads == \E t \in Threads : Call(t) \/ Step(t, QuietWorld)

SpecThreads == InitThreads /\ [][NextThreads]_vars

-----------------------------------------------------------------------------
\* Properties.

\* The pcs at which a thread is inside process_new_disclosures.
InProcess(t) ==
    pc[t] \in {"request", "parse", "download", "extract", "send", "commit"}

LastEntry(t) == log[t][Len(log[t])]

\* The step is thread t's Parse step (not a restart, which leaves t idle) and
\* the check ran to one of its returns of lines 145 and 185 (nothing threw).
ParseStep(t) ==
    pc[t] = "parse" /\ pc'[t] \in {"download", "finally"} /\ ~last'.threw

Returned(list) == { list[i].disclosure_id : i \in 1..Len(list) }

\* C1: over any run, with restarts and failed persists, every identity is the
\* subject of at most one successful notification.
C1_AtMostOneNotification == renotified = {}

\* What C2 asks of a single step.
C2_Step ==
    /\ \A id \in known_disclosures' \ known_disclosures :
          \/ Restart
          \/ \E t \in Threads :
                /\ pc[t] = "commit"
                /\ sendRes[t]
                /\ Current(t).disclosure_id = id
                /\ LastEntry(t).id = id /\ LastEntry(t).sent
    /\ \A t \in Threads :
          (pc[t] = "download" /\ pc'[t] \in {"download", "finally"})
             => known_disclosures' = known_disclosures
    /\ \A t \in Threads :
          (pc[t] = "commit" /\ ~sendRes[t] /\ pc'[t] \in {"download", "finally"})
             => known_disclosures' = known_disclosures

\* C2: an identity enters known_disclosures only in the commit that follows a
\* true send result for that same filing in the same cycle; the iteration of
\* a filing whose fetch failed or whose send returned false adds nothing.
C2_RecordOnlyAfterTrueSend == [][C2_Step]_vars

\* C2 witness: a cycle in which the first filing was not recorded (its fetch
\* or its send failed) and the second was sent and recorded.
C2_Witness ==
    /\ last.op = "commit"
    /\ \E t \in Threads :
          /\ Len(log[t]) = 2
          /\ ~log[t][1].added /\ log[t][1].id \notin known_disclosures
          /\ log[t][2].sent /\ log[t][2].added
          /\ log[t][2].id \in known_disclosures

\* What C3 asks of a single step.
C3_Step ==
    \A t \in Threads :
      ParseStep(t) =>
        LET page == resp[t][1]
            ret  == new_disclosures'[t]
        IN  /\ \A i \in 1..Len(ret) :
                  ret[i].disclosure_id \notin known_disclosures
            /\ \A j \in 1..Len(page.rows) :
                  LET row == page.rows[j]
                  IN  ( /\ row.cells >= 4
                        /\ row.link
                        /\ DisclosureId(row) \notin known_disclosures )
                      => \E i \in 1..Len(ret) :
                            /\ ret[i].disclosure_id = DisclosureId(row)
                            /\ ret[i].name = row.name
                            /\ ret[i].pdf_url = PdfUrl(row)

\* C3: the list a check returns holds no identity that was known when the
\* check read the table, and holds every row of the table with at least 4
\* cells and a link whose identity was not known.
C3_ReturnsExactlyTheUnknown == [][C3_Step]_vars

\* C3 witness: a check has just returned a filing from a page that also
\* listed an identity already known.
C3_Witness ==
    /\ last.op = "parse"
    /\ last.shown \cap known_disclosures # {}
    /\ \E t \in Threads :
          /\ pc[t] = "download" /\ idx[t] = 1
          /\ Returned(new_disclosures[t]) # {}
          /\ Returned(new_disclosures[t]) = last.shown \ known_disclosures

\* C4: with a configuration main() accepts, a cycle with one unknown filing,
\* a successful fetch and an accepting relay sends exactly one notification
\* and, the write succeeding, leaves the identity in the state file.
C4_ValidatedConfigNotifies ==
    \A t \in Threads :
      ( /\ pc[t] = "finally"
        /\ ValidatedShape(config)
        /\ Len(new_disclosures[t]) = 1
        /\ Len(log[t]) = 1
        /\ log[t][1].fetched
        /\ log[t][1].relay )
      => /\ log[t][1].sent
         /\ last.disk = "ok" => log[t][1].id \in file.processed_disclosures

\* What C5 asks of a single step.
C5_Step ==
    /\ \A t \in Threads :
          pc'[t] = "finally" =>
            \A i \in 1..Len(log'[t]) :
              (log'[t][i].fetched /\ ~log'[t][i].sent)
                 => log'[t][i].id \notin known_disclosures'
    /\ \A t \in Threads :
          ParseStep(t) =>
            \A j \in 1..Len(resp[t][1].rows) :
              LET row == resp[t][1].rows[j]
              IN  (Listed(row) /\ DisclosureId(row) \notin known_disclosures)
                  => DisclosureId(row) \in Returned(new_disclosures'[t])

\* C5: an identity whose send returned false in a cycle is absent from
\* known_disclosures when the cycle ends, and a later successful check of a
\* page that still lists it returns it again (every identity the page lists
\* and the tracker does not know is returned).
C5_FailedSendLeavesUnrecorded == [][C5_Step]_vars

\* What C6 asks of a single step.
C6_Step ==
    /\ \A t \in Threads :
          (pc[t] = "download" /\ ~pdf_io'[t] /\ pc'[t] # "idle")
            => /\ UNCHANGED <<file, known_disclosures, expected_disclosure_counts>>
               /\ UNCHANGED <<notified, renotified>>
               /\ new_disclosures'[t] = new_disclosures[t]
               /\ idx'[t] = idx[t] + 1
               /\ pc'[t] = IF idx[t] < Len(new_disclosures[t])
                           THEN "download" ELSE "finally"
    /\ \A t \in Threads :
          pc'[t] = "finally" =>
            /\ Len(log'[t]) = Len(new_disclosures'[t])
            /\ \A i \in 1..Len(log'[t]) :
                  /\ log'[t][i].id = new_disclosures'[t][i].disclosure_id
                  /\ ~log'[t][i].fetched =>
                        /\ ~log'[t][i].extracted
                        /\ ~log'[t][i].sent
                        /\ ~log'[t][i].added

\* C6: a failed download_pdf makes the loop go on with the next filing: no
\* extraction, no send, no change of the Repository in that iteration, the
\* same filing is not fetched again, and the cycle ends only after every
\* filing of the list had its iteration.
C6_FailedFetchSkipsOneFiling == [][C6_Step]_vars

\* C6 witness: a cycle in which the fetch of the first filing failed and the
\* second filing was fetched, sent and recorded.
C6_Witness ==
    \E t \in Threads :
      /\ pc[t] = "finally"
      /\ Len(log[t]) = 2
      /\ ~log[t][1].fetched /\ ~log[t][1].added
      /\ log[t][2].fetched /\ log[t][2].sent /\ log[t][2].added

\* C7: at most one thread is inside process_new_disclosures at any time.
C7_SingleFlight == Cardinality({ t \in Threads : InProcess(t) }) <= 1

\* What C8 asks of a single step.
C8_Step ==
    /\ \A t \in Threads :
      (pc[t] = "test" /\ is_running /\ pc'[t] # "test")
        => /\ pc'[t] = "idle"
           /\ UNCHANGED <<file, known_disclosures, expected_disclosure_counts>>
           /\ UNCHANGED <<is_running, notified, renotified>>
           /\ resp'[t] = resp[t] /\ resp'[t] = NoResp
           /\ new_disclosures'[t] = new_disclosures[t]
           /\ idx'[t] = idx[t]
           /\ log'[t] = log[t]
           /\ \A u \in Threads \ {t} : pc'[u] = pc[u]
    /\ \A t \in Threads :
         (pc[t] = "idle" /\ pc'[t] # "idle")
           => pc'[t] = "test" /\ last'.op = "call"

\* C8: a wrapper call that reads the flag as set returns at once: the thread
\* is idle again, and the Repository, the flag, the notifications and the
\* thread's own cycle state are as they were; an idle thread enters a cycle
\* only through a new call of the wrapper.
C8_SkipWhileRunning == [][C8_Step]_vars

\* C8 witness: a call has just been skipped while another thread is inside
\* its cycle.
C8_Witness ==
    /\ last.op = "skip"
    /\ is_running
    /\ \E t \in Threads : InProcess(t)
    /\ \E t \in Threads : pc[t] = "idle"

\* What C9 asks of a single step.
C9_Step == Restart \/ known_disclosures \subseteq known_disclosures'

\* C9: within one process known_disclosures only grows: every step that is
\* not the start of a new process leaves a superset.
C9_KnownOnlyGrows == [][C9_Step]_vars

\* C9 witness: an identity has just been recorded next to one recorded before.
C9_Witness ==
    /\ last.op = "commit"
    /\ Cardinality(known_disclosures) >= 2
    /\ \E t \in Threads :
          /\ Len(log[t]) >= 1
          /\ LastEntry(t).added
          /\ known_disclosures \ {LastEntry(t).id} # {}

\* What C10 asks of a single step.
C10_Step ==
    \A t \in Threads :
      ParseStep(t) =>
        LET total == ExtractTotalDisclosureCount(resp[t][1])
            old   == Get(expected_disclosure_counts, current_year)
        IN  /\ has_new_entries'[t] = (total > old)
            /\ (total > old) =>
                  /\ current_year \in DOMAIN expected_disclosure_counts'
                  /\ expected_disclosure_counts'[current_year] = total
                  /\ last'.disk # "none"
                  /\ last'.disk = "ok" =>
                        /\ file'.kind = "data"
                        /\ ~file'.legacy
                        /\ file'.total_disclosure_counts_by_year =
                              expected_disclosure_counts'
            /\ ~(total > old) =>
                  /\ expected_disclosure_counts' = expected_disclosure_counts
                  /\ file' = file

\* C10: a check that got its page returns count_increased true exactly when
\* the extracted total exceeds the stored count of the configured year; then
\* the stored count becomes the total and _save_data runs in the same step
\* (a successful write leaves the whole state, with the new count, in the
\* file); otherwise the count map and the file stay as they were.
C10_CountIncreased == [][C10_Step]_vars

\* C10 witness: a check has just raised the stored count and written it,
\* while it returned no new filing.
C10_Witness ==
    /\ last.op = "parse"
    /\ last.total > last.expected
    /\ last.expected > 0
    /\ last.disk = "ok"
    /\ file.kind = "data"
    /\ Get(file.total_disclosure_counts_by_year, current_year) = last.total
    /\ \E t \in Threads :
          /\ pc[t] = "finally"
          /\ has_new_entries[t]
          /\ new_disclosures[t] = <<>>

-----------------------------------------------------------------------------
\* Text.  The functions that read a page or a document work on strings with
\* the patterns of Python's re module; the operators below match a pattern
\* the way re does (leftmost match, greedy repetition with backtracking).

Chr(s, i) == SubSeq(s, i, i)

SetMin(S) == CHOOSE x \in S : \A y \in S : x <= y

SetMax(S) == CHOOSE x \in S : \A y \in S : y <= x

\* The character classes \s, \d, [A-Z], [^\n] and [^(].
InClass(c, cls) ==
    CASE cls = "s"      -> c \in {" ", "\n", "\t"}
      [] cls = "d"      -> c \in {"0", "1", "2", "3", "4", "5", "6", "7", "8", "9"}
      [] cls = "A-Z"    -> c \in {"A", "B", "C", "D", "E", "F", "G", "H", "I",
                                  "J", "K", "L", "M", "N", "O", "P", "Q", "R",
                                  "S", "T", "U", "V", "W", "X", "Y", "Z"}
      [] cls = "not_nl" -> c # "\n"
      [] cls = "not_lp" -> c # "("

\* The items of a pattern: a literal; one of two literals, (?:a|b); an
\* optional literal, a?; a class repeated min..max times (max 0: any number
\* of times), where cap marks the pattern's capturing group.
Lit(x) == [k |-> "lit", s |-> x, s2 |-> "", cls |-> "", min |-> 0, max |-> 0,
           cap |-> FALSE]
Alt(x, y) == [Lit(x) EXCEPT !.k = "alt", !.s2 = y]
Opt(x) == [Lit(x) EXCEPT !.k = "opt"]
Rep(cls, min, max, cap) ==
    [k |-> "rep", s |-> "", s2 |-> "", cls |-> cls, min |-> min, max |-> max,
     cap |-> cap]

\* \s+ and (\d+)
Spaces == Rep("s", 1, 0, FALSE)
Number == Rep("d", 1, 0, TRUE)

\* Whether the literal x stands at position i of s.
LitAt(s, i, x) == i + Len(x) - 1 <= Len(s) /\ SubSeq(s, i, i + Len(x) - 1) = x

\* The number of characters of class cls from position i on, max at most.
RunLen(s, i, cls, max) ==
    LET hi  == IF max > 0 /\ i + max - 1 < Len(s) THEN i + max - 1 ELSE Len(s)
        bad == { j \in i..hi : ~InClass(Chr(s, j), cls) }
    IN  IF bad = {} THEN hi - i + 1 ELSE SetMin(bad) - i

NoMatch == [ok |-> FALSE, start |-> 0, end |-> 0, gs |-> 0, ge |-> 0]

\* Whether item n of pat can start at position j of s at all (TRUE where
\* that takes a match to tell).
CanStart(s, j, pat, n) ==
    IF n > Len(pat) THEN TRUE
    ELSE LET it == pat[n]
         IN  CASE it.k = "lit" -> LitAt(s, j, it.s)
               [] it.k = "alt" -> LitAt(s, j, it.s) \/ LitAt(s, j, it.s2)
               [] it.k = "opt" -> TRUE
               [] it.k = "rep" ->
                    it.min = 0 \/ (j <= Len(s) /\ InClass(Chr(s, j), it.cls))

\* The match of the items n.. of pat at position i of s: end is the position
\* after the match and gs..ge the captured group.  A repetition takes the
\* longest run after which the rest of the pattern matches (TryRep goes from
\* the longest of the run lengths ks down).
RECURSIVE MatchAt(_, _, _, _), TryRep(_, _, _, _, _)
MatchAt(s, i, pat, n) ==
    IF n > Len(pat)
    THEN [ok |-> TRUE, start |-> i, end |-> i, gs |-> 0, ge |-> 0]
    ELSE LET it == pat[n]
         IN  CASE it.k = "lit" ->
                    IF LitAt(s, i, it.s)
                    THEN MatchAt(s, i + Len(it.s), pat, n + 1) ELSE NoMatch
               [] it.k = "alt" ->
                    LET a == IF LitAt(s, i, it.s)
                             THEN MatchAt(s, i + Len(it.s), pat, n + 1)
                             ELSE NoMatch
                    IN  IF a.ok THEN a
                        ELSE IF LitAt(s, i, it.s2)
                        THEN MatchAt(s, i + Len(it.s2), pat, n + 1) ELSE NoMatch
               [] it.k = "opt" ->
                    LET a == IF LitAt(s, i, it.s)
                             THEN MatchAt(s, i + Len(it.s), pat, n + 1)
                             ELSE NoMatch
                    IN  IF a.ok THEN a ELSE MatchAt(s, i, pat, n + 1)
               [] it.k = "rep" ->
                    LET m == RunLen(s, i, it.cls, it.max)
                    IN  TryRep(s, i, pat, n,
                               { k \in it.min..m : CanStart(s, i + k, pat, n + 1) })

TryRep(s, i, pat, n, ks) ==
    IF ks = {} THEN NoMatch
    ELSE LET k == SetMax(ks)
             r == MatchAt(s, i + k, pat, n + 1)
         IN  IF r.ok
             THEN IF pat[n].cap THEN [r EXCEPT !.gs = i, !.ge = i + k - 1] ELSE r
             ELSE TryRep(s, i, pat, n, ks \ {k})

\* re.search from position from on: the leftmost match.
SearchFrom(s, pat, from) ==
    LET at == { i \in from..Len(s) : MatchAt(s, i, pat, 1).ok }
    IN  IF at = {} THEN NoMatch
        ELSE [MatchAt(s, SetMin(at), pat, 1) EXCEPT !.start = SetMin(at)]

\* match.group(1)
Group1(s, m) == SubSeq(s, m.gs, m.ge)

\* int(x) of a string of decimal digits.
RECURSIVE Int(_)
Int(x) ==
    IF x = "" THEN 0
    ELSE Int(SubSeq(x, 1, Len(x) - 1)) * 10
         + (CHOOSE d \in 0..9 : ToString(d) = Chr(x, Len(x)))

\* The number of places where the literal x stands in s.
Occurrences(s, x) == Cardinality({ i \in 1..Len(s) : LitAt(s, i, x) })

-----------------------------------------------------------------------------
\* _extract_total_disclosure_count on the text of a results page.

\* Pieces of markup a results page is made of.
MaxParts == 2

\* A piece: its text and what it holds: a "Showing X to Y of N entries"
\* phrase, a bare "of N entries" phrase, a <table class="table"> with trs
\* rows (the header row included), or none of them.
Part(text, phrase, n, table, trs) ==
    [text |-> text, phrase |-> phrase, n |-> n, table |-> table, trs |-> trs]

RECURSIVE Repeat(_, _)
Repeat(x, n) ==
    IF n = 0 THEN "" ELSE IF n = 1 THEN x
    ELSE Repeat(x, n \div 2) \o Repeat(x, n - (n \div 2))

\* The pieces: phrases with the counts of the model and the 233 of
\* test_disclosure_count_extraction; tables of class "table" with 0 rows and
\* more; plain text, a phrase without a number, and a table that is not of
\* class "table".
Parts ==
    { Part("<div>Showing 1 to 10 of " \o ToString(n) \o " entries</div>",
           "showing", n, FALSE, 0) : n \in Counts \cup {233} }
    \cup
    { Part("<p>page 1\nof  " \o ToString(n) \o " entries</p>",
           "of", n, FALSE, 0) : n \in Counts \cup {233} }
    \cup
    { Part("<table class=\"table\">" \o Repeat("<tr><td>x</td></tr>", trs)
              \o "</table>",
           "none", 0, TRUE, trs) : trs \in 0..(MaxRows + 1) }
    \cup
    { Part("<div>No count information</div>", "none", 0, FALSE, 0),
      Part("<div>Showing 1 to 10 of many entries</div>", "none", 0, FALSE, 0),
      Part("<table id=\"t\"><tr><td>x</td></tr><tr><td>y</td></tr></table>",
           "none", 0, FALSE, 0) }

Htmls == UNION { [1..n -> Parts] : n \in 0..MaxParts }

\* The string a sequence of pieces makes.
RECURSIVE Text(_)
Text(parts) == IF parts = <<>> THEN "" ELSE Head(parts).text \o Text(Tail(parts))

\* tracker.py:72
ShowingPattern ==
    <<Lit("Showing"), Spaces, Rep("d", 1, 0, FALSE), Spaces, Lit("to"), Spaces,
      Rep("d", 1, 0, FALSE), Spaces, Lit("of"), Spaces, Number, Spaces,
      Lit("entries")>>

\* tracker.py:77
OfEntriesPattern ==
    <<Lit("of"), Spaces, Number, Spaces, Lit("entries")>>

\* tracker.py:83-86: soup.find('table', class_='table') and the <tr> in it
\* after the first; 0 rows for a table without any <tr>.
TableOpen == "<table class=\"table\">"

TableRows(text) ==
    LET open  == SearchFrom(text, <<Lit(TableOpen)>>, 1)
        close == SearchFrom(text, <<Lit("</table>")>>, open.end)
        trs   == Occurrences(SubSeq(text, open.end, close.start - 1), "<tr>")
    IN  IF trs = 0 THEN 0 ELSE trs - 1

\* What a call ends with: a returned value, or an exception.
Returns(v) == [raised |-> FALSE, value |-> v]
Raises == [raised |-> TRUE, value |-> 0]

\* The points at which the body can throw: the first re.search (an argument
\* that is not a string) and the BeautifulSoup parse.
CountFaults == {"none", "search", "soup"}

\* tracker.py:71-88: the body of the try.
CountBody(text, fault) ==
    IF fault = "search" THEN Raises
    ELSE LET showing == SearchFrom(text, ShowingPattern, 1)
             of      == SearchFrom(text, OfEntriesPattern, 1)
         IN  IF showing.ok THEN Returns(Int(Group1(text, showing)))
             ELSE IF of.ok THEN Returns(Int(Group1(text, of)))
             ELSE IF fault = "soup" THEN Raises
             ELSE IF SearchFrom(text, <<Lit(TableOpen)>>, 1).ok
                  THEN Returns(TableRows(text))
             ELSE Returns(0)

\* An except clause that lets the exception through.
C11m_CountExcept(r) == r

\* tracker.py:89-91: except Exception: return 0.
CountExcept(r) == IF r.raised THEN Returns(0) ELSE r

\* tracker.py:68-91
ExtractCountFromText(text, fault) == CountExcept(CountBody(text, fault))

\* The page record of the tracker's cycle that a sequence of pieces stands
\* for: the total of its first Showing phrase, the total of its first
\* "of N entries" (a Showing phrase holds one), and its first table.
PageOf(parts) ==
    LET First(kinds) ==
            LET at == { i \in 1..Len(parts) : parts[i].phrase \in kinds }
            IN  IF at = {} THEN NoPhrase ELSE parts[SetMin(at)].n
        tables == { i \in 1..Len(parts) : parts[i].table }
        trs == IF tables = {} THEN 0 ELSE parts[SetMin(tables)].trs
    IN  [showing |-> First({"showing"}),
         of_entries |-> First({"showing", "of"}),
         table |-> tables # {},
         rows |-> [j \in 1..(IF trs = 0 THEN 0 ELSE trs - 1)
                     |-> CHOOSE r \in Rows : Listed(r)]]

\* The specification: a page text is given and the function is applied once.
Settled ==
    /\ InitWith(MissingFile, CHOOSE c \in Configs : ValidatedShape(c))
    /\ listing = <<>>
    /\ peak = <<>>
    /\ id_pair = <<>>

InitCount ==
    /\ Settled
    /\ html_content \in Htmls
    /\ count_result = <<>>
    /\ data_file = <<>> /\ tracker = "none" /\ pdf = <<>> /\ trades = <<>>

ExtractCount ==
    /\ count_result = <<>>
    /\ \E fault \in CountFaults :
         count_result' = <<[fault |-> fault,
                            out |-> ExtractCountFromText(Text(html_content), fault)]>>
    /\ UNCHANGED <<config, repo, is_running, pc, locals, log, hist, last, listing, peak, id_pair,
                   html_content, data_file, tracker, pdf, trades>>

SpecCount == InitCount /\ [][ExtractCount]_vars

\* What the pieces of the page call for, by the precedence of C11.
C11_Expected(parts) ==
    LET showings == { i \in 1..Len(parts) : parts[i].phrase = "showing" }
        ofs      == { i \in 1..Len(parts) : parts[i].phrase = "of" }
        tables   == { i \in 1..Len(parts) : parts[i].table }
    IN  IF showings # {} THEN parts[SetMin(showings)].n
        ELSE IF ofs # {} THEN parts[SetMin(ofs)].n
        ELSE IF tables # {}
             THEN LET trs == parts[SetMin(tables)].trs
                  IN  IF trs = 0 THEN 0 ELSE trs - 1
        ELSE 0

\* C11: _extract_total_disclosure_count never raises and returns the N of the
\* first "Showing X to Y of N entries" phrase; without one, the N of the first
\* "of N entries" phrase; without one, the number of rows of the
\* <table class="table"> after its header row; without a table, 0; and 0
\* when the body threw.  The result is the one the tracker's cycle works with.
C11_CountPrecedence ==
    count_result # <<>> =>
      LET r == count_result[1]
          threw == \/ r.fault = "search"
                   \/ /\ r.fault = "soup"
                      /\ \A i \in 1..Len(html_content) :
                            html_content[i].phrase = "none"
      IN  /\ ~r.out.raised
          /\ r.out.value = IF threw THEN 0 ELSE C11_Expected(html_content)
          /\ r.fault = "none" =>
                r.out.value = ExtractTotalDisclosureCount(PageOf(html_content))

\* C11 witness: the function has returned the total of a Showing phrase that
\* stands after a bare "of N entries" phrase with another total.
C11_Witness ==
    /\ count_result # <<>>
    /\ count_result[1].fault = "none"
    /\ Len(html_content) = 2
    /\ html_content[1].phrase = "of"
    /\ html_content[2].phrase = "showing"
    /\ html_content[1].n # html_content[2].n
    /\ count_result[1].out.value = html_content[2].n

-----------------------------------------------------------------------------
\* The state file as JSON: _load_data, _save_data and __init__ on what
\* json.load and json.dump read and write.

\* A JSON value: a list of strings, an object with numbers, a number or null.
Json(type, list, dict, int) ==
    [type |-> type, list |-> list, dict |-> dict, int |-> int]

Null == Json("null", <<>>, EmptyCounts, 0)

\* The value of a key the object does not have.
Absent == Json("absent", <<>>, EmptyCounts, 0)

\* What config["data_file"] holds: no file; text json.load cannot decode;
\* a JSON array; or a JSON object with the values of its keys.
Doc(kind, processed, total, by_year) ==
    [kind |-> kind, processed_disclosures |-> processed,
     total_disclosure_count |-> total, total_disclosure_counts_by_year |-> by_year]

NoDoc(kind) == Doc(kind, Absent, Absent, Absent)

\* The count maps a file can hold.
CountMaps == UNION { [ys -> Counts] : ys \in SUBSET {current_year, other_year} }

\* The files a tracker can be built on: well-formed ones in the legacy and in
\* the per-year form, with any of the keys missing, and ones of another
\* shape: null or an object for the list, null or a list for the map.
InitDocs ==
    { NoDoc("missing"), NoDoc("undecodable"), NoDoc("array") }
    \cup
    { Doc("object", p, n, y) :
        p \in { Json("list", q, EmptyCounts, 0) :
                  q \in UNION { [1..k -> Ids] : k \in 0..Cardinality(Ids) } }
              \cup { Absent, Null,
                     Json("dict", <<>>, [k \in {other_year} |-> 1], 0) },
        n \in { Json("int", <<>>, EmptyCounts, c) : c \in Counts } \cup { Absent },
        y \in { Json("dict", <<>>, m, 0) : m \in CountMaps }
              \cup { Absent, Null, Json("list", <<"x">>, EmptyCounts, 0) } }

\* A set built from the first element only.
C13m_SetOf(v) == IF v.type = "list" /\ v.list # <<>> THEN {v.list[1]} ELSE {}

\* tracker.py:36: set(x) of a list is the set of its elements and of a dict
\* the set of its keys.
SetOf(v) ==
    IF v.type = "list" THEN { v.list[i] : i \in 1..Len(v.list) }
    ELSE DOMAIN v.dict

\* A migration that drops the legacy count.
C17m_Migrate(n) == EmptyCounts

\* tracker.py:41-44: the legacy count goes under the configured year.
Migrate(n) == Put(EmptyCounts, current_year, n)

\* tracker.py:29-52: the attributes _load_data leaves.  Every exception in
\* the try is caught: json.load on text that does not decode, data.get on an
\* array, set() of null, and .get of line 50 on a map that is no dict; what
\* was assigned before the exception stays.
LoadData(doc) ==
    LET empty == [known |-> {}, counts |-> Json("dict", <<>>, EmptyCounts, 0)]
        p == IF doc.processed_disclosures # Absent
             THEN doc.processed_disclosures
             ELSE Json("list", <<>>, EmptyCounts, 0)
    IN  IF doc.kind # "object" THEN empty
        ELSE IF p.type \notin {"list", "dict"} THEN empty
        ELSE [known |-> SetOf(p),
              counts |->
                IF doc.total_disclosure_count # Absent
                THEN Json("dict", <<>>, Migrate(doc.total_disclosure_count.int), 0)
                ELSE IF doc.total_disclosure_counts_by_year # Absent
                THEN doc.total_disclosure_counts_by_year
                ELSE Json("dict", <<>>, EmptyCounts, 0)]

\* list(self.known_disclosures): the elements once each, in any order.
Orders(S) ==
    { q \in [1..Cardinality(S) -> S] : \A x \in S : \E i \in DOMAIN q : q[i] = x }

\* tracker.py:54-66: the file after _save_data.  open(..., "w") empties the
\* file before json.dump writes; a dump that fails, or a process that stops
\* before it ends, leaves text that does not decode.
WriteData(doc, order, counts, disk) ==
    CASE disk = "ok" ->
           Doc("object", Json("list", order, EmptyCounts, 0), Absent,
               Json("dict", <<>>, counts, 0))
      [] disk = "open_failed"  -> doc
      [] disk = "write_failed" -> NoDoc("undecodable")

InitStore ==
    /\ Settled
    /\ data_file \in InitDocs
    /\ tracker = "none"
    /\ html_content = <<>> /\ count_result = <<>> /\ pdf = <<>> /\ trades = <<>>

\* main.py:33 with tracker.py:17-25: DisclosureTracker(config).  Line 25
\* calls .get on the loaded map outside any try: a map that is no dict makes
\* the constructor raise, and no tracker exists.
Construct ==
    /\ tracker = "none"
    /\ LET r == LoadData(data_file)
       IN  IF r.counts.type = "dict"
           THEN /\ tracker' = "built"
                /\ known_disclosures' = r.known
                /\ expected_disclosure_counts' = r.counts.dict
           ELSE /\ tracker' = "raised"
                /\ UNCHANGED <<known_disclosures, expected_disclosure_counts>>
    /\ last' = Did("construct")
    /\ UNCHANGED <<config, file, is_running, pc, locals, log, hist, listing, peak, id_pair,
                   html_content, count_result, data_file, pdf, trades>>

\* tracker.py:122-137: a check that extracted the total n.
CheckCount ==
    /\ tracker = "built"
    /\ \E n \in Counts :
         LET expected_count == Get(expected_disclosure_counts, current_year)
         IN  IF HasNewEntries(n, expected_count)
             THEN \E disk \in DiskOutcomes, order \in Orders(known_disclosures) :
                    /\ expected_disclosure_counts' =
                           Put(expected_disclosure_counts, current_year, n)
                    /\ data_file' = WriteData(data_file, order,
                                              expected_disclosure_counts', disk)
                    /\ last' = [Did("check") EXCEPT !.disk = disk, !.total = n,
                                                    !.expected = expected_count]
             ELSE /\ UNCHANGED <<expected_disclosure_counts, data_file>>
                  /\ last' = [Did("check") EXCEPT !.total = n,
                                                  !.expected = expected_count]
    /\ UNCHANGED <<config, file, known_disclosures, is_running, pc, locals, log,
                   hist, listing, peak, id_pair, html_content, count_result, tracker, pdf, trades>>

\* tracker.py:229-232: a filing was notified and is recorded.
AddKnown ==
    /\ tracker = "built"
    /\ \E id \in Ids :
         LET known == Record(known_disclosures, id)
         IN  \E disk \in DiskOutcomes, order \in Orders(known) :
               /\ known_disclosures' = known
               /\ data_file' = WriteData(data_file, order,
                                         expected_disclosure_counts, disk)
               /\ last' = [Did("add") EXCEPT !.disk = disk]
    /\ UNCHANGED <<config, file, expected_disclosure_counts, is_running, pc,
                   locals, log, hist, listing, peak, id_pair, html_content, count_result,
                   tracker, pdf, trades>>

\* The process ends (after the constructor raised, or at any later time); the
\* next one starts from the file.
Stop ==
    /\ tracker # "none"
    /\ tracker' = "none"
    /\ known_disclosures' = {}
    /\ expected_disclosure_counts' = EmptyCounts
    /\ last' = Did("stop")
    /\ UNCHANGED <<config, file, is_running, pc, locals, log, hist, listing, peak, id_pair,
                   html_content, count_result, data_file, pdf, trades>>

NextStore == Construct \/ CheckCount \/ AddKnown \/ Stop

SpecStore == InitStore /\ [][NextStore]_vars

-----------------------------------------------------------------------------
\* Properties of the cycle, continued.

\* What C12 asks of a single step.
C12_Step ==
    /\ \A t \in Threads :
          (pc[t] = "request" /\ last'.op = "request" /\ resp'[t] = NoResp)
            => /\ new_disclosures'[t] = <<>>
               /\ ~has_new_entries'[t]
               /\ pc'[t] = "finally"
               /\ log'[t] = <<>>
               /\ UNCHANGED <<file, known_disclosures, expected_disclosure_counts>>
               /\ UNCHANGED <<notified, renotified>>
    /\ \A t \in Threads :
          (pc[t] = "finally" /\ new_disclosures[t] = <<>> /\ last'.op = "finally")
            => /\ pc'[t] = "idle"
               /\ UNCHANGED <<file, known_disclosures, expected_disclosure_counts>>
               /\ UNCHANGED <<notified, renotified>>

\* C12: when the priming request or the search request fails, the check
\* returns ([], False) to process_new_disclosures and nothing is raised: the
\* cycle goes straight to its end with no fetch, no send and no change of the
\* Repository or of the state file.
C12_FailedRequestEndsCycle == [][C12_Step]_vars

\* C12 witness: a request has just failed in a process that knows a filing
\* and holds a count, and the cycle is at its end with nothing done.
C12_Witness ==
    /\ last.op = "request"
    /\ known_disclosures # {}
    /\ Get(expected_disclosure_counts, current_year) > 0
    /\ \E t \in Threads :
          /\ pc[t] = "finally"
          /\ new_disclosures[t] = <<>>
          /\ ~has_new_entries[t]
          /\ log[t] = <<>>

\* What C14 asks of a single step.
C14_Step ==
    /\ \A t \in Threads :
          ( /\ ParseStep(t)
            /\ listing # <<>>
            /\ listing[1].read
            /\ listing[1].page = resp[t][1]
            /\ \A j \in 1..Len(resp[t][1].rows) :
                  Listed(resp[t][1].rows[j])
                     => DisclosureId(resp[t][1].rows[j]) \in known_disclosures )
            => /\ new_disclosures'[t] = <<>>
               /\ ~has_new_entries'[t]
               /\ pc'[t] = "finally"
               /\ UNCHANGED <<file, known_disclosures, expected_disclosure_counts>>
               /\ UNCHANGED <<notified, renotified>>
    /\ \A t \in Threads :
          (pc[t] = "finally" /\ pc'[t] # "finally")
            => /\ UNCHANGED <<file, known_disclosures, expected_disclosure_counts>>
               /\ UNCHANGED <<notified, renotified>>

\* C14: a cycle whose check reads the page an earlier check of the process
\* read, every filing of the page being known, finds nothing new and no
\* higher count: it ends with the identity set, the count map, the state file
\* and the notifications as they were.
C14_SecondRunChangesNothing == [][C14_Step]_vars

\* C14 witness: a check has just read, not for the first time, a page that
\* lists known filings and reports the total the count map already holds, and
\* the cycle is at its end.
C14_Witness ==
    /\ last.op = "parse"
    /\ listing # <<>>
    /\ listing[1].read
    /\ last.expected = last.total
    /\ last.shown # {}
    /\ last.shown \subseteq known_disclosures
    /\ last.total > 0
    /\ \E t \in Threads : pc[t] = "finally" /\ new_disclosures[t] = <<>>

-----------------------------------------------------------------------------
\* Properties of the state file.

\* C13: right after a _save_data that succeeded, _load_data of the file it
\* wrote gives the identity set and the count map the tracker holds.
C13_SaveLoadRoundTrip ==
    last.disk = "ok" =>
      LET r == LoadData(data_file)
      IN  /\ r.known = known_disclosures
          /\ r.counts = Json("dict", <<>>, expected_disclosure_counts, 0)

\* C13 witness: a state with two identities and counts for two years has
\* just been saved.
C13_Witness ==
    /\ last.disk = "ok"
    /\ tracker = "built"
    /\ Cardinality(known_disclosures) = 2
    /\ DOMAIN expected_disclosure_counts = {current_year, other_year}
    /\ data_file.processed_disclosures.type = "list"
    /\ Len(data_file.processed_disclosures.list) = 2

\* A file that is missing, does not decode, or has another shape than an
\* object with a list of identities and a map of counts (the map is read
\* only when the object has no legacy count).
C15_Unexpected(doc) ==
    \/ doc.kind # "object"
    \/ doc.processed_disclosures.type \notin {"list", "absent"}
    \/ /\ doc.total_disclosure_count = Absent
       /\ doc.total_disclosure_counts_by_year.type \notin {"dict", "absent"}

\* C15: the constructor, given a file that is missing, does not decode or has
\* an unexpected shape, builds a tracker with the empty identity set and the
\* empty count map and raises nothing; and a tracker built on any file holds
\* either nothing or what the file gives for both the identities and the
\* counts.
C15_BadFileLoadsEmpty ==
    last.op = "construct" =>
      /\ C15_Unexpected(data_file) =>
            /\ tracker = "built"
            /\ known_disclosures = {}
            /\ expected_disclosure_counts = EmptyCounts
      /\ tracker = "built" =>
            \/ /\ known_disclosures = {}
               /\ expected_disclosure_counts = EmptyCounts
            \/ /\ known_disclosures = LoadData(data_file).known
               /\ expected_disclosure_counts = LoadData(data_file).counts.dict

\* What C16 asks of a single step.
C16_Step ==
    data_file' # data_file =>
      LET r == LoadData(data_file')
      IN  /\ r.known = known_disclosures'
          /\ r.counts = Json("dict", <<>>, expected_disclosure_counts', 0)

\* C16: whatever happens during a _save_data, the file afterwards is either
\* the file as it was or one that loads as the complete new state.
C16_AtomicOverwrite == [][C16_Step]_vars

\* A file in the legacy form: an object with total_disclosure_count.
C17_Legacy(doc) ==
    /\ doc.kind = "object"
    /\ doc.processed_disclosures.type \in {"list", "absent"}
    /\ doc.total_disclosure_count # Absent

\* What C17 asks of a single step.
C17_Step ==
    /\ (tracker = "none" /\ tracker' # "none" /\ C17_Legacy(data_file)) =>
          /\ tracker' = "built"
          /\ expected_disclosure_counts' =
                [y \in {current_year} |-> data_file.total_disclosure_count.int]
          /\ data_file' = data_file
    /\ (last.op = "construct" /\ last'.op = "check" /\ C17_Legacy(data_file)) =>
          LET old == data_file.total_disclosure_count.int
          IN  /\ last'.expected = old
              /\ (expected_disclosure_counts' # expected_disclosure_counts)
                    <=> last'.total > old
              /\ last'.total > old =>
                    expected_disclosure_counts'[current_year] = last'.total
    /\ last'.disk \in {"none", "open_failed"} => data_file' = data_file
    /\ last'.disk = "ok" =>
          /\ data_file'.kind = "object"
          /\ data_file'.total_disclosure_count = Absent
          /\ data_file'.total_disclosure_counts_by_year =
                Json("dict", <<>>, expected_disclosure_counts', 0)

\* C17: building a tracker on a file with the legacy total_disclosure_count
\* puts that value under the configured year and leaves the file alone; the
\* check that follows compares the extracted total with it; no step but a
\* _save_data that succeeds changes the file, and that one writes the
\* per-year form with no legacy field.
C17_LegacyCountMigrates == [][C17_Step]_vars

\* C17 witness: a tracker has just been built on a legacy file whose count
\* is not 0 and that also holds another count for the year in the per-year
\* form.
C17_Witness ==
    /\ last.op = "construct"
    /\ tracker = "built"
    /\ C17_Legacy(data_file)
    /\ data_file.total_disclosure_count.int > 0
    /\ data_file.total_disclosure_counts_by_year.type = "dict"
    /\ Get(data_file.total_disclosure_counts_by_year.dict, current_year)
          # data_file.total_disclosure_count.int
    /\ known_disclosures # {}
    /\ Get(expected_disclosure_counts, current_year)
          = data_file.total_disclosure_count.int

-----------------------------------------------------------------------------
\* extract_trades_from_pdf (pdf_parser.py:20-136) on the text of a document.

\* Most pages of a document and most pieces of a page.
MaxPages == 2
MaxBlocks == 3

\* pdf_parser.py:47-48: the text taken around a ticker, before and after it.
LookBack == 200
LookAhead == 400

\* pdf_parser.py:126: the length of the text sample of the placeholder.
SampleLen == 500

\* The character that stands for '\x00' in the texts of the model.
Nul == "^"

\* What position i of s gives to the rewritten string: with how = "nul" the
\* character unless it is Nul; with how = "ws" the character, or one space
\* for a whole run of whitespace.
Kept(s, i, how) ==
    CASE how = "nul" -> IF Chr(s, i) = Nul THEN "" ELSE Chr(s, i)
      [] how = "ws"  -> IF ~InClass(Chr(s, i), "s") THEN Chr(s, i)
                        ELSE IF i > 1 /\ InClass(Chr(s, i - 1), "s") THEN ""
                        ELSE " "

RECURSIVE Rewrite(_, _, _, _)
Rewrite(s, lo, hi, how) ==
    IF lo > hi THEN "" ELSE IF lo = hi THEN Kept(s, lo, how)
    ELSE Rewrite(s, lo, (lo + hi) \div 2, how)
            \o Rewrite(s, ((lo + hi) \div 2) + 1, hi, how)

\* str.strip()
Strip(s) ==
    LET ink == { i \in 1..Len(s) : ~InClass(Chr(s, i), "s") }
    IN  IF ink = {} THEN "" ELSE SubSeq(s, SetMin(ink), SetMax(ink))

\* A piece of a page with what it was written from.  A row is a transaction
\* as the filings print it ("SP <name> (<TICKER>) ... <date> <date> ...", the
\* "D:" line left out when d is ""); a block is an asset block with labelled
\* fields; a gap is LookAhead characters that hold no ticker, date or
\* description.
Piece(kind, text, name, ticker, s, d, t, n) ==
    [kind |-> kind, text |-> text, stock_name |-> name, ticker |-> ticker,
     filing_status |-> s, description |-> d, transaction_date |-> t,
     notification_date |-> n]

Row(name, ticker, d, t, n) ==
    Piece("row",
          "SP " \o name \o " (" \o ticker \o ") [ST] P " \o t \o " " \o n
             \o " $1,001 - $15,000\nF S: New\n"
             \o (IF d = "" THEN "" ELSE "D: " \o d \o "\n"),
          name, ticker, "New", d, t, n)

Block(name, ticker, s, d, t, n) ==
    Piece("block",
          "ASSET: " \o name \o " (" \o ticker \o ")\nFiling Status: " \o s
             \o "\nDescription: " \o d \o "\nDate: " \o t
             \o "\nNotification Date: " \o n \o "\n\n",
          name, ticker, s, d, t, n)

Gap == Piece("gap", Repeat("-", LookAhead) \o "\n", "", "", "", "", "", "")

TradeRows ==
    { Row("Apple Inc.", "AAPL", "Sold 10 shares.", "01/14/2025", "01/15/2025"),
      Row("Apple Inc.", "AAPL", "", "01/14/2025", "01/15/2025"),
      Row("Apple Inc.", "AAPL", "Sold 10 shares.", "12/31/2024", "01/02/2025"),
      Row("NVIDIA Corporation", "NVDA", "Sold 10 shares.", "01/14/2025", "01/15/2025"),
      Row("NVIDIA Corporation", "NVDA", "Purchased 50 call  options.", "01/14/2025",
          "01/15/2025") }

\* The blocks of test_extract_trades_from_pdf, and an amended one.
Blocks ==
    { Block("Alphabet Inc. - Class A", "GOOGL", "New",
            "Purchased 50 call options with a strike price of $150.",
            "01/14/2025", "01/14/2025"),
      Block("Apple Inc. Common Stock", "AAPL", "New", "Sold 31,600 shares.",
            "12/31/2024", "12/31/2024"),
      Block("Apple Inc.", "AAPL", "Amended", "Sold 10 shares.", "12/31/2024",
            "01/02/2025") }

\* n characters that hold no ticker and no date.
Fill(n) == SubSeq(Repeat("0123456789", (n \div 10) + 1), 1, n)

\* Pages that hold no transaction by themselves: empty, short, of the lengths
\* around SampleLen, with Nul characters, and with a ticker next to a single
\* date.
PlainPages ==
    { "", "Nothing to report." }
    \cup { Fill(n) : n \in (SampleLen - 2)..(SampleLen + 1) }
    \cup { "P" \o Nul \o "T" \o Nul \o "R (none)",
           "Held (XYZ) since 01/14/2025\nF S: New\nD: Held.\n" }

\* A document: how reading it fails, its pages, and for a page made of
\* pieces the pieces.
Document(form, fault, pages, pieces) ==
    [form |-> form, fault |-> fault, pages |-> pages, pieces |-> pieces]

\* The points at which the body can throw: PyPDF2.PdfReader raises, a page's
\* extract_text raises, or it returns None and .replace raises.
ExtractFaults == {"none", "reader", "page", "no_text"}

Documents ==
    { Document("plain", fault, pages, <<>>) :
         fault \in ExtractFaults,
         pages \in UNION { [1..n -> PlainPages] : n \in 0..MaxPages } }
    \cup
    { Document("rows", fault, <<"Transactions\n" \o Text(pieces)>>, pieces) :
         fault \in ExtractFaults,
         pieces \in UNION { [1..n -> TradeRows \cup {Gap}] : n \in 1..MaxBlocks } }
    \cup
    { Document("blocks", fault,
               <<"Financial Disclosure Report\nTransactions\n\n" \o Text(pieces)>>,
               pieces) :
         fault \in ExtractFaults,
         pieces \in UNION { [1..n -> Blocks] : n \in 1..MaxBlocks } }

\* pdf_parser.py:31-35: the text of the pages, Nul characters removed, a
\* newline after each page.
RECURSIVE FullText(_)
FullText(pages) ==
    IF pages = <<>> THEN ""
    ELSE Rewrite(Head(pages), 1, Len(Head(pages)), "nul") \o "\n"
            \o FullText(Tail(pages))

\* pdf_parser.py:38
TickerPattern == <<Lit("("), Rep("A-Z", 1, 0, TRUE), Lit(")")>>

\* pdf_parser.py:52
CompanyPattern(ticker) ==
    <<Lit("SP"), Spaces, Rep("not_lp", 1, 0, TRUE), Lit("(" \o ticker \o ")")>>

\* pdf_parser.py:57
DatePattern ==
    <<Rep("d", 2, 2, FALSE), Lit("/"), Rep("d", 2, 2, FALSE), Lit("/"),
      Rep("d", 4, 4, FALSE)>>

\* pdf_parser.py:66
DescriptionPattern ==
    <<Lit("D:"), Rep("s", 0, 0, FALSE), Rep("not_nl", 1, 0, TRUE)>>

\* pdf_parser.py:72
AltDescriptionPattern ==
    <<Alt("New", "Amended"), Rep("s", 0, 0, FALSE), Lit("\n"),
      Rep("s", 0, 0, FALSE), Lit("D"), Opt(":"), Rep("s", 0, 0, FALSE),
      Rep("not_nl", 1, 0, TRUE)>>

\* re.finditer and re.findall: the matches from left to right, none
\* overlapping another.
RECURSIVE FindAll(_, _, _)
FindAll(s, pat, from) ==
    LET m == SearchFrom(s, pat, from)
    IN  IF ~m.ok THEN <<>> ELSE <<m>> \o FindAll(s, pat, m.end)

\* pdf_parser.py:47-49: full_text[start_pos:end_pos] around the match m.
Context(full_text, m) ==
    LET match_pos == m.start - 1
        start_pos == IF match_pos - LookBack > 0 THEN match_pos - LookBack ELSE 0
        end_pos   == IF match_pos + LookAhead < Len(full_text)
                     THEN match_pos + LookAhead ELSE Len(full_text)
    IN  SubSeq(full_text, start_pos + 1, end_pos)

\* pdf_parser.py:79-85: the first line that ends with "New" and is followed
\* by a line that starts with "D:" gives what follows that "D:".
LineFallback(context) ==
    LET nl       == { i \in 1..Len(context) : Chr(context, i) = "\n" }
        starts   == {1} \cup { i + 1 : i \in nl }
        After(a) == { i \in nl : i >= a }
        End(a)   == IF After(a) = {} THEN Len(context) ELSE SetMin(After(a)) - 1
        Line(a)  == Strip(SubSeq(context, a, End(a)))
        hits     == { a \in starts :
                         /\ After(a) # {}
                         /\ Len(Line(a)) >= 3
                         /\ SubSeq(Line(a), Len(Line(a)) - 2, Len(Line(a))) = "New"
                         /\ LitAt(Line(End(a) + 2), 1, "D:") }
        next_line == Line(End(SetMin(hits)) + 2)
    IN  IF hits = {} THEN "Unknown"
        ELSE Strip(SubSeq(next_line, 3, Len(next_line)))

\* pdf_parser.py:66-88
Description(context) ==
    LET description_match == SearchFrom(context, DescriptionPattern, 1)
        alt_desc_match    == SearchFrom(context, AltDescriptionPattern, 1)
        found == IF description_match.ok
                 THEN Strip(Group1(context, description_match))
                 ELSE IF alt_desc_match.ok
                 THEN Strip(Group1(context, alt_desc_match))
                 ELSE "Unknown"
        description == IF found = "Unknown" THEN LineFallback(context) ELSE found
    IN  Strip(Rewrite(description, 1, Len(description), "ws"))

\* pdf_parser.py:111-118
Trade(company_name, ticker, description, transaction_date, notification_date) ==
    [stock_name |-> company_name, ticker |-> ticker, filing_status |-> "New",
     description |-> description, transaction_date |-> transaction_date,
     notification_date |-> notification_date]

\* pdf_parser.py:43-62 and 91: what one ticker match gives.
Occurrence(full_text, m) ==
    LET ticker  == Group1(full_text, m)
        context == Context(full_text, m)
        company_match == SearchFrom(context, CompanyPattern(ticker), 1)
        dates == FindAll(context, DatePattern, 1)
        Date(k) == SubSeq(context, dates[k].start, dates[k].end - 1)
    IN  [ticker |-> ticker,
         company_name |-> IF company_match.ok
                          THEN Strip(Group1(context, company_match))
                          ELSE "Unknown",
         enough |-> Len(dates) >= 2,
         transaction_date |-> IF Len(dates) >= 1 THEN Date(1) ELSE "Unknown",
         notification_date |-> IF Len(dates) >= 2 THEN Date(2) ELSE "Unknown",
         context |-> context]

\* A loop that keeps every match with two dates and a description.
C23m_Visit(o, description, acc) ==
    IF ~o.enough \/ description = "Unknown" THEN acc
    ELSE [acc EXCEPT !.trades =
             Append(acc.trades,
                    Trade(o.company_name, o.ticker, description,
                          o.transaction_date, o.notification_date))]

\* pdf_parser.py:91-120: what the loop does with one ticker match o and its
\* description, given the keys processed and the trades found so far.
Visit(o, description, acc) ==
    LET trade_key == <<o.ticker, o.transaction_date, o.notification_date>>
    IN  IF ~o.enough THEN acc
        ELSE IF trade_key \in acc.processed_trades /\ o.ticker # "NVDA" THEN acc
        ELSE IF /\ o.ticker = "NVDA"
                /\ \E j \in 1..Len(acc.trades) :
                      /\ acc.trades[j].ticker = o.ticker
                      /\ acc.trades[j].transaction_date = o.transaction_date
                      /\ acc.trades[j].notification_date = o.notification_date
                      /\ acc.trades[j].description = description
             THEN acc
        ELSE [processed_trades |-> acc.processed_trades \cup {trade_key},
              trades |->
                 IF description = "Unknown" \/ o.transaction_date = "Unknown"
                 THEN acc.trades
                 ELSE Append(acc.trades,
                             Trade(o.company_name, o.ticker, description,
                                   o.transaction_date, o.notification_date))]

\* pdf_parser.py:64-88 for the match o.
Described(o, acc) == Visit(o, Description(o.context), acc)

\* pdf_parser.py:42-120: the loop over the ticker matches from the i-th on.
RECURSIVE TickerLoop(_, _, _, _)
TickerLoop(full_text, tickers, i, acc) ==
    IF i > Len(tickers) THEN acc.trades
    ELSE TickerLoop(full_text, tickers, i + 1,
                    Described(Occurrence(full_text, tickers[i]), acc))

\* A sample that is the whole text whatever its length.
C19m_Sample(full_text) == full_text

\* pdf_parser.py:126
Sample(full_text) ==
    IF Len(full_text) > SampleLen
    THEN SubSeq(full_text, 1, SampleLen) \o "..."
    ELSE full_text

\* pdf_parser.py:124-127
Placeholder(full_text) ==
    [note |-> "Automatic parsing could not identify specific trades.",
     pdf_text_sample |-> Sample(full_text)]

\* pdf_parser.py:123-129
OrPlaceholder(full_text, found) ==
    IF found = <<>> THEN <<Placeholder(full_text)>> ELSE found

\* pdf_parser.py:37-129
Parsed(full_text) ==
    OrPlaceholder(full_text,
                  TickerLoop(full_text, FindAll(full_text, TickerPattern, 1), 1,
                             [processed_trades |-> {}, trades |-> <<>>]))

\* What str(e) is for each way of failing.
ErrorMessage(fault) ==
    CASE fault = "reader"  -> "PDF parsing error"
      [] fault = "page"    -> "Could not read the page"
      [] fault = "no_text" -> "'NoneType' object has no attribute 'replace'"

RaisesWith(e) == [raised |-> TRUE, value |-> e]

\* Whether reading the document throws: PdfReader at once, a page only when
\* there is one.
Throws(doc) ==
    \/ doc.fault = "reader"
    \/ doc.fault \in {"page", "no_text"} /\ doc.pages # <<>>

\* pdf_parser.py:29-129: the body of the try.
ExtractBody(doc) ==
    IF Throws(doc) THEN RaisesWith(ErrorMessage(doc.fault))
    ELSE Returns(Parsed(FullText(doc.pages)))

\* An except clause that lets the exception through.
C18m_ExtractExcept(r) == r

\* pdf_parser.py:131-136
ExtractExcept(r) ==
    IF r.raised
    THEN Returns(<<[error |-> r.value,
                    note |-> "Failed to parse PDF. Manual review required."]>>)
    ELSE r

\* pdf_parser.py:20-136
ExtractTradesFromPdf(doc) == ExtractExcept(ExtractBody(doc))

\* The specification: a document is given and the function is applied once.
InitExtract ==
    /\ Settled
    /\ pdf \in { <<doc>> : doc \in Documents }
    /\ trades = <<>>
    /\ html_content = <<>> /\ count_result = <<>> /\ data_file = <<>>
    /\ tracker = "none"

ExtractTrades ==
    /\ trades = <<>>
    /\ trades' = <<ExtractTradesFromPdf(pdf[1])>>
    /\ UNCHANGED <<config, repo, is_running, pc, locals, log, hist, last, listing, peak, id_pair,
                   html_content, count_result, data_file, tracker, pdf>>

SpecExtract == InitExtract /\ [][ExtractTrades]_vars

-----------------------------------------------------------------------------
\* Properties of extract_trades_from_pdf.

\* Whether a returned record is a parsed trade.
IsTrade(r) == "ticker" \in DOMAIN r

\* C18: extract_trades_from_pdf never raises, and when reading the document
\* throws it returns exactly one record, with the error message under error
\* and the manual-review text under note, and so no parsed trade.
C18_ErrorsBecomeOneRecord ==
    trades # <<>> =>
        /\ ~trades[1].raised
        /\ Throws(pdf[1]) =>
              /\ Len(trades[1].value) = 1
              /\ DOMAIN trades[1].value[1] = {"error", "note"}
              /\ trades[1].value[1].error = ErrorMessage(pdf[1].fault)
              /\ trades[1].value[1].note
                    = "Failed to parse PDF. Manual review required."

\* C18 witness: the function has been applied to a document of transaction
\* rows whose first page gives no text, and has returned the record of the
\* AttributeError.
C18_Witness ==
    /\ trades # <<>>
    /\ pdf[1].form = "rows"
    /\ pdf[1].fault = "no_text"
    /\ ~trades[1].raised
    /\ trades[1].value[1].error = "'NoneType' object has no attribute 'replace'"

\* C19: when nothing throws and the result holds no parsed trade, the result
\* is exactly one placeholder record: a non-empty note, and a pdf_text_sample
\* that is the whole text when the text has at most 500 characters and else
\* its first 500 characters followed by "...".
C19_PlaceholderSample ==
    (trades # <<>> /\ ~Throws(pdf[1]) /\ ~trades[1].raised
        /\ \A j \in 1..Len(trades[1].value) : ~IsTrade(trades[1].value[j]))
    => LET text == FullText(pdf[1].pages)
       IN  /\ Len(trades[1].value) = 1
           /\ DOMAIN trades[1].value[1] = {"note", "pdf_text_sample"}
           /\ trades[1].value[1].note # ""
           /\ trades[1].value[1].pdf_text_sample
                 = IF Len(text) <= 500 THEN text
                   ELSE SubSeq(text, 1, 500) \o "..."

\* C19 witness: the function has been applied to a document of more than 500
\* characters without a transaction and has returned a sample of 503.
C19_Witness ==
    /\ trades # <<>>
    /\ pdf[1].fault = "none"
    /\ Len(FullText(pdf[1].pages)) > 500
    /\ ~trades[1].raised
    /\ Len(trades[1].value) = 1
    /\ ~IsTrade(trades[1].value[1])
    /\ Len(trades[1].value[1].pdf_text_sample) = 503

\* The record C20 asks for a block.
C20_Record(block) ==
    [stock_name |-> block.stock_name, ticker |-> block.ticker,
     filing_status |-> block.filing_status, description |-> block.description,
     transaction_date |-> block.transaction_date,
     notification_date |-> block.notification_date]

\* C20: for a document whose Transactions section is made of labelled asset
\* blocks, the function returns one parsed record per block, in the order of
\* the blocks, with the six fields as the block gives them.
C20_BlocksParsed ==
    (trades # <<>> /\ pdf[1].form = "blocks" /\ pdf[1].fault = "none")
    => /\ ~trades[1].raised
       /\ trades[1].value
             = [j \in 1..Len(pdf[1].pieces) |-> C20_Record(pdf[1].pieces[j])]

-----------------------------------------------------------------------------
\* main() (main.py:17-33) on the configuration load_config returned.

\* Most addresses in config["email"]["recipient_emails"].
MaxRecipients == 2

\* config.py:19-21: the values of the default configuration.
PlaceholderEmail == "PLACEHOLDER_EMAIL@gmail.com"
PlaceholderPassword == "PLACEHOLDER_PASSWORD"

\* The configurations main() can be given, config["email"] being an object.
\* recipients is the list under "recipient_emails" (empty also for a missing
\* key, which .get treats alike); recipient_emails and recipient_email are
\* the shape as in Configs.
MainConfigs ==
    { [sender_email |-> s, sender_password |-> p,
       recipients |-> r, recipient_emails |-> r # <<>>, recipient_email |-> one] :
         s \in {PlaceholderEmail, "me@example.org"},
         p \in {PlaceholderPassword, "secret"},
         r \in UNION { [1..n -> {PlaceholderEmail, "you@example.org"}] :
                         n \in 0..MaxRecipients },
         one \in BOOLEAN }

\* main.py:23-27: the condition under which main() logs the error and
\* returns 1.
NotConfigured(c) ==
    \/ c.sender_email = PlaceholderEmail
    \/ c.sender_password = PlaceholderPassword
    \/ c.recipients = <<>>
    \/ Len(c.recipients) = 1 /\ c.recipients[1] = PlaceholderEmail

\* main.py:23-33: how main() goes on: the check returns 1, or
\* DisclosureTracker(config) is built.
MainOutcome(c) == IF NotConfigured(c) THEN "returned_1" ELSE "built"

\* The specification: main() runs once on a loaded configuration, and the
\* cycles of run_scheduled follow only when it has built the tracker.
InitMain ==
    /\ \E c \in MainConfigs : InitWith(MissingFile, c)
    /\ listing = <<>>
    /\ peak = <<>>
    /\ tracker = "none"
    /\ html_content = <<>> /\ count_result = <<>> /\ data_file = <<>>
    /\ pdf = <<>> /\ trades = <<>> /\ id_pair = <<>>

Main ==
    /\ tracker = "none"
    /\ tracker' = MainOutcome(config)
    /\ last' = Did("main")
    /\ UNCHANGED <<config, repo, is_running, pc, locals, log, hist, listing, peak, id_pair,
                   html_content, count_result, data_file, pdf, trades>>

NextMain ==
    \/ Main
    \/ tracker = "built" /\ Call(MainThread)
    \/ tracker = "built" /\ Step(MainThread, QuietWorld)

SpecMain == InitMain /\ [][NextMain]_vars

\* Whether a configuration has the placeholder sender, the placeholder
\* password or no recipient that is not the placeholder.
C21_Placeholders(c) ==
    \/ c.sender_email = "PLACEHOLDER_EMAIL@gmail.com"
    \/ c.sender_password = "PLACEHOLDER_PASSWORD"
    \/ \A k \in 1..Len(c.recipients) :
          c.recipients[k] = "PLACEHOLDER_EMAIL@gmail.com"

\* C21: under a configuration with the placeholder sender, the placeholder
\* password or no real recipient, main() returns 1 and builds no tracker: no
\* cycle starts, nothing is sent and the state file is not touched.
C21_PlaceholdersStopMain ==
    C21_Placeholders(config) =>
        /\ tracker \in {"none", "returned_1"}
        /\ \A t \in Threads : pc[t] = "idle"
        /\ notified = {}
        /\ file = MissingFile

-----------------------------------------------------------------------------
\* disclosure_id (tracker.py:160-171) as a function of the filing.

\* Rows of the results table with a name, a filing type and a link: the names
\* and filing types are cell texts, some with an underscore.
Filings ==
    { [cells |-> 4, name |-> n, filing_type |-> ft, link |-> TRUE, href |-> h] :
         n \in {"Pelosi", "Pelosi_PTR", "Smith"},
         ft \in {"PTR", "PTR_Amended", "Amended"},
         h \in {"/2025/1.pdf", "/2025/2.pdf", "https://example.org/1.pdf"} }

\* (name, filing_type, document_url) of a row.
Triple(row) == <<row.name, row.filing_type, PdfUrl(row)>>

\* The specification: two rows are given and the identity of each is built.
InitIdentity ==
    /\ InitWith(MissingFile, CHOOSE c \in Configs : ValidatedShape(c))
    /\ listing = <<>>
    /\ peak = <<>>
    /\ id_pair \in { <<[a |-> a, b |-> b, ids |-> <<>>]>> : a \in Filings, b \in Filings }
    /\ html_content = <<>> /\ count_result = <<>> /\ data_file = <<>>
    /\ tracker = "none" /\ pdf = <<>> /\ trades = <<>>

Identify ==
    /\ id_pair[1].ids = <<>>
    /\ id_pair' = <<[id_pair[1] EXCEPT
                       !.ids = <<DisclosureId(id_pair[1].a), DisclosureId(id_pair[1].b)>>]>>
    /\ UNCHANGED <<config, repo, is_running, pc, locals, log, hist, last, listing,
                   peak, html_content, count_result, data_file, tracker, pdf, trades>>

SpecIdentity == InitIdentity /\ [][Identify]_vars

\* C22: the identity string is a function of (name, filing_type,
\* document_url), and two triples that differ give different strings.
C22_IdentityInjective ==
    (id_pair # <<>> /\ id_pair[1].ids # <<>>) =>
        (id_pair[1].ids[1] = id_pair[1].ids[2]
            <=> Triple(id_pair[1].a) = Triple(id_pair[1].b))

-----------------------------------------------------------------------------
\* Properties of the loop over the ticker matches.

\* The parsed records of the returned list.
ParsedTrades ==
    IF trades = <<>> \/ trades[1].raised THEN {}
    ELSE { j \in 1..Len(trades[1].value) : IsTrade(trades[1].value[j]) }

\* (ticker, transaction date, notification date) of a parsed record.
TradeKey(r) == <<r.ticker, r.transaction_date, r.notification_date>>

\* C23: in the returned list no two parsed records of a ticker other than
\* NVDA have the same (ticker, transaction date, notification date), and no
\* two NVDA records have the same key and the same description.
C23_NoDuplicateTrades ==
    \A i \in ParsedTrades : \A j \in ParsedTrades :
        LET a == trades[1].value[i]
            b == trades[1].value[j]
        IN  (i # j /\ TradeKey(a) = TradeKey(b))
               => a.ticker = "NVDA" /\ a.description # b.description

\* C23 witness: the function has been applied to a document in which the
\* same transaction row stands twice, and has returned one record for it;
\* or to one with two NVDA rows of one key, and has returned both.
C23_Witness ==
    /\ ParsedTrades # {}
    /\ pdf[1].form = "rows"
    /\ \/ /\ Len(pdf[1].pieces) = 2
          /\ pdf[1].pieces[1] = pdf[1].pieces[2]
          /\ pdf[1].pieces[1].ticker = "AAPL"
          /\ Cardinality(ParsedTrades) = 1
       \/ \E i \in ParsedTrades : \E j \in ParsedTrades :
             /\ i # j
             /\ TradeKey(trades[1].value[i]) = TradeKey(trades[1].value[j])

\* The ticker occurrences of the text that have two dates and a resolved
\* description, each as its key.
C30_ResolvedKeys(full_text) ==
    LET ms == FindAll(full_text, TickerPattern, 1)
        Key(o) == <<o.ticker, o.transaction_date, o.notification_date>>
    IN  { Key(Occurrence(full_text, ms[k])) :
            k \in { i \in 1..Len(ms) :
                      /\ Occurrence(full_text, ms[i]).enough
                      /\ Description(Occurrence(full_text, ms[i]).context)
                            # "Unknown" } }

\* C30: for every key that some ticker occurrence of the text has with two
\* dates and a resolved description, the returned list holds a parsed record
\* with that key, also when an earlier occurrence of the key has no
\* description.
C30_ResolvedKeyIsReturned ==
    (trades # <<>> /\ ~Throws(pdf[1]))
    => \A key \in C30_ResolvedKeys(FullText(pdf[1].pages)) :
          \E j \in ParsedTrades : TradeKey(trades[1].value[j]) = key

-----------------------------------------------------------------------------
\* Properties of the check, continued.

\* C24: the list check_for_new_disclosures returned holds no two records
\* with the same identity, and within the cycle no identity is sent for in
\* more than one iteration of the loop.
C24_OneRecordPerIdentity ==
    \A t \in Threads :
        /\ \A i \in 1..Len(new_disclosures[t]) :
             \A j \in 1..Len(new_disclosures[t]) :
                i # j => new_disclosures[t][i].disclosure_id
                            # new_disclosures[t][j].disclosure_id
        /\ \A i \in 1..Len(log[t]) :
             \A j \in 1..Len(log[t]) :
                (i # j /\ log[t][i].sent /\ log[t][j].sent)
                   => log[t][i].id # log[t][j].id

\* The step in which a check ends on its error path: a request failed, or
\* the parse of the page threw.
C25_ErrorPath(t) ==
    \/ pc[t] = "request" /\ last'.op = "request" /\ resp'[t] = NoResp
    \/ pc[t] = "parse" /\ last'.op = "parse" /\ last'.threw

\* What C25 asks of a single step.
C25_Step ==
    \A t \in Threads :
        /\ C25_ErrorPath(t)
             => /\ new_disclosures'[t] = <<>>
                /\ ~has_new_entries'[t]
                /\ UNCHANGED <<file, known_disclosures, expected_disclosure_counts>>
        /\ (pc[t] = "parse" /\ last'.op = "parse"
              /\ expected_disclosure_counts' # expected_disclosure_counts)
             => has_new_entries'[t]

\* C25: a check that ends on its error path returns ([], False) and leaves
\* the identity set and the count map as they were, in memory and in the
\* state file; a check that changes the stored count returns
\* count_increased = True.
C25_ErrorPathChangesNothing == [][C25_Step]_vars

\* What C26 asks of a single step of a process: no year's stored count goes
\* down, and a check returns count_increased only for a total above every
\* total extracted before and above the loaded count.
C26_Step ==
    /\ \A y \in {current_year, other_year} :
          Get(expected_disclosure_counts', y) >= Get(expected_disclosure_counts, y)
    /\ \A t \in Threads :
          (pc[t] = "parse" /\ last'.op = "parse" /\ has_new_entries'[t])
            => /\ last'.total > peak[1].high
               /\ last'.total > Get(peak[1].loaded, current_year)

\* What C26 asks of a state of a process: the configured year's stored count
\* is the larger of the loaded count and the highest total extracted, and
\* every other year's count is the loaded one.
C26_Peak ==
    LET loaded == Get(peak[1].loaded, current_year)
    IN  /\ Get(expected_disclosure_counts, current_year) =
              IF peak[1].high > loaded THEN peak[1].high ELSE loaded
        /\ Get(expected_disclosure_counts, other_year) =
              Get(peak[1].loaded, other_year)

\* C26: within one process the stored count of a year never decreases; it is
\* the maximum of the loaded count and the totals extracted so far, and a
\* total that comes back to an earlier peak does not set count_increased.
C26_CountNeverDecreases == []C26_Peak /\ [][C26_Step]_vars

\* C26 witness: the total fell below the peak and a later check has just
\* extracted the peak again: the stored count is still the peak and the check
\* returned count_increased = False.
C26_Witness ==
    /\ peak # <<>>
    /\ peak[1].dropped
    /\ last.op = "parse" /\ ~last.threw
    /\ last.total = peak[1].high
    /\ last.total > Get(peak[1].loaded, current_year)
    /\ Get(expected_disclosure_counts, current_year) = last.total
    /\ \E t \in Threads : pc[t] = "finally" /\ ~has_new_entries[t]

\* The step belongs to thread t's call of check_for_new_disclosures.
C27_CheckStep(t) ==
    /\ pc[t] \in {"request", "parse"}
    /\ last'.op \in {"request", "parse"}

\* What C27 asks of a single step.
C27_Step ==
    \A t \in Threads :
      C27_CheckStep(t) =>
        /\ known_disclosures' = known_disclosures
        /\ DOMAIN expected_disclosure_counts' \ {current_year} =
              DOMAIN expected_disclosure_counts \ {current_year}
        /\ \A y \in DOMAIN expected_disclosure_counts \ {current_year} :
              expected_disclosure_counts'[y] = expected_disclosure_counts[y]

\* C27: a check leaves the identity set as it is and leaves the stored count
\* of every year other than the configured one as it is; of the Repository
\* it can change the configured year's count only.
C27_CheckChangesOneCount == [][C27_Step]_vars

\* C27 witness: a check has just raised the configured year's count in a
\* process that knows a filing and holds a count for another year.
C27_Witness ==
    /\ last.op = "parse"
    /\ last.total > last.expected
    /\ known_disclosures # {}
    /\ other_year \in DOMAIN expected_disclosure_counts
    /\ expected_disclosure_counts[other_year] = 1
    /\ Get(expected_disclosure_counts, current_year) = last.total

-----------------------------------------------------------------------------
\* Properties of run_scheduled.

\* No cycle is in flight: every thread is outside the body of the wrapper.
C28_NoCycle == \A t \in Threads : pc[t] \in {"idle", "test", "set"}

\* What C28 asks of a state.
C28_Idle ==
    /\ last.op # "skip"
    /\ C28_NoCycle => ~is_running

\* What C28 asks of a single step: the test of the flag finds it clear and
\* the wrapper goes on to run the cycle.
C28_Step ==
    \A t \in Threads :
       (pc[t] = "test" /\ pc'[t] # "test" /\ last'.op # "restart")
          => ~is_running /\ pc'[t] = "set" /\ last'.op = "test"

\* C28: with the startup call and every job run by the one loop thread,
\* every call of the wrapper finds the flag clear, the skip branch is never
\* taken, and the flag is clear whenever no cycle is in flight.
C28_SchedulerFindsGuardIdle == []C28_Idle /\ [][C28_Step]_vars

\* C28 witness: after a cycle that notified, the next call has just tested
\* the flag and found it clear.
C28_Witness ==
    /\ last.op = "test"
    /\ pc[MainThread] = "set"
    /\ ~is_running
    /\ notified # {}

\* In the cycle in flight the check returned filing f, its document was
\* fetched and the send for it returned True.
C29_Succeeded(f) ==
    \E t \in Threads :
        /\ pc[t] = "commit"
        /\ Current(t).disclosure_id = f
        /\ pdf_io[t]
        /\ sendRes[t]

\* What C29 asks of a single step once f is recorded: a check does not
\* return f, and a send for f happens only in the cycle that recorded it.
C29_Step ==
    \A t \in Threads :
        /\ ParseStep(t) =>
              \A i \in 1..Len(new_disclosures'[t]) :
                  new_disclosures'[t][i].disclosure_id \notin known_disclosures
        /\ (pc[t] = "send" /\ pc'[t] = "commit"
              /\ Current(t).disclosure_id \in known_disclosures)
             => \E i \in 1..Len(log[t]) :
                   log[t][i].id = Current(t).disclosure_id /\ log[t][i].added

\* C29: with cycles scheduled fairly and the listing unchanged, a filing for
\* which the check, the fetch and the send succeeded in one cycle is
\* eventually in known_disclosures; from the next cycle on the check does not
\* return it and nothing is sent for it again in the process.
C29_EventuallyRecorded ==
    /\ \A f \in Ids : C29_Succeeded(f) ~> (f \in known_disclosures)
    /\ [][C29_Step]_vars

\* C29 witness: a later cycle has just checked the listing that still shows
\* a filing recorded and notified before, and did not return it.
C29_Witness ==
    /\ listing # <<>>
    /\ last.op = "parse" /\ ~last.threw
    /\ \E f \in last.shown :
          /\ f \in known_disclosures
          /\ f \in notified
          /\ \A t \in Threads : f \notin Returned(new_disclosures[t])
    /\ log[MainThread] = <<>>

====
